---- MODULE Spec2Model ----
(***************************************************************************)
(* Model of src/server.py: the /analyze handler (token dispatch into the   *)
(* nine part-of-speech buckets, the per-bucket classifiers, the clause     *)
(* segmenter) and the /sentence handler (external sources with local       *)
(* fallback).                                                              *)
(*                                                                         *)
(* Conventions.  A parsed sentence is a sequence `doc` of token records;   *)
(* token index i (0-based, as spaCy's t.i) is doc[i+1]; `head` holds the   *)
(* 0-based index of the syntactic head (the root is its own head).         *)
(* Python strings are TLA+ strings; a joined or formatted string is kept   *)
(* as the sequence of its pieces.  The noun-phrase list of analyze is      *)
(* built only from the parser's noun_chunks and is read by nothing else;   *)
(* it is left out of the state.                                            *)
(***************************************************************************)
EXTENDS Integers, Sequences, FiniteSets, TLC

VARIABLES pc, doc, k,
          verbs, auxiliaries, nouns, pronouns, adjectives, adverbs,
          prepositions, conjunctions, interjections,
          pos_labels, clauses,
          call, reply

buckets == <<verbs, auxiliaries, nouns, pronouns, adjectives, adverbs,
             prepositions, conjunctions, interjections>>
vars == <<pc, doc, k, verbs, auxiliaries, nouns, pronouns, adjectives, adverbs,
          prepositions, conjunctions, interjections, pos_labels, clauses,
          call, reply>>

(***************************************************************************)
(* Bounds of the model.                                                    *)
(***************************************************************************)
\* longest sentence drawn from the free token alphabets
MaxLen == 2
\* most dependants placed around the main verb in the verb-centred parses
MaxKids == 2

(***************************************************************************)
(* Module-level constants of server.py.                                    *)
(***************************************************************************)
LOCAL_SENTENCES ==
  << "Wow! That absolutely crushed the previous record.",
     "She checked out of the hotel early this morning.",
     "The committee has been reviewing the proposal for weeks.",
     "Those quickly written notes were surprisingly clear.",
     "After the storm, the lights finally came back on.",
     "I will look into the issue tomorrow.",
     "The red car in the driveway belongs to my neighbor.",
     "Because it was raining, we decided to stay inside.",
     "Please hand in your assignments by Friday.",
     "They might have been waiting for the bus." >>

LINKING_LEMMAS == {"be", "seem", "become", "appear", "feel", "look", "sound",
                   "remain", "stay", "grow", "turn", "smell", "taste"}
MODALS == {"can", "could", "may", "might", "must", "shall", "should", "will", "would"}
PARTICLE_POS == {"PART", "ADP", "ADV"}

(***************************************************************************)
(* String primitives, by table over the words the model uses.              *)
(***************************************************************************)
\* str.lower()
Lower(s) ==
  CASE s = "She" -> "she"
    [] s = "They" -> "they"
    [] s = "Wow" -> "wow"
    [] s = "And" -> "and"
    [] s = "Thus" -> "thus"
    [] s = "Who" -> "who"
    [] s = "That" -> "that"
    [] OTHER -> s

\* s[:1].isupper()
IsCapitalized(s) == s \in {"She", "They", "Wow", "And", "Thus", "Who", "That"}

\* tag.startswith("NN") over the Penn tags
StartsWithNN(tag) == tag \in {"NN", "NNS", "NNP", "NNPS"}

(***************************************************************************)
(* Token access.                                                           *)
(***************************************************************************)
Tok(i) == doc[i + 1]
NTok == Len(doc)
Indices == 0 .. (NTok - 1)
IndexSeq == [j \in 1 .. NTok |-> j - 1]

\* tok.head
HeadOf(i) == Tok(Tok(i).head)

\* tok.children: the tokens headed by i, itself excluded, in sentence order
Children(i) == SelectSeq(IndexSeq, LAMBDA c : c # i /\ Tok(c).head = i)

RECURSIVE HeadPow(_, _)
HeadPow(j, m) == IF m = 0 THEN j ELSE HeadPow(Tok(j).head, m - 1)

\* tok.subtree: the token and its descendants, in sentence order
Subtree(i) == SelectSeq(IndexSeq, LAMBDA j : \E m \in 0 .. NTok : HeadPow(j, m) = i)

Texts(idxs) == [j \in 1 .. Len(idxs) |-> Tok(idxs[j]).text]

\* sorted(set(xs), key=lambda x: x.i) over token indices
RECURSIVE SortedSet(_)
SortedSet(S) ==
  IF S = {} THEN <<>>
  ELSE LET m == CHOOSE x \in S : \A y \in S : x <= y
       IN <<m>> \o SortedSet(S \ {m})

SeqRange(s) == {s[j] : j \in 1 .. Len(s)}

(***************************************************************************)
(* Auxiliary / verb helpers.                                               *)
(***************************************************************************)
\* seeded fault: the lemma test of is_aux dropped
is_aux_tags_only(t) == Tok(t).pos = "AUX" \/ Tok(t).tag = "MD"

is_aux(t) ==
  \/ Tok(t).pos = "AUX"
  \/ Tok(t).tag = "MD"
  \/ Tok(t).lemma \in {"be", "have", "do"}

\* seeded fault: the perfect test of aux_role moved before the modal test
aux_role_perfect_first(aux_tok, head_tok) ==
  IF aux_tok.lemma = "have" THEN "perfect"
  ELSE IF aux_tok.tag = "MD" \/ aux_tok.lemma \in MODALS THEN "modal"
  ELSE IF aux_tok.lemma = "be" /\ head_tok.tag = "VBG" THEN "progressive"
  ELSE IF aux_tok.lemma = "be" /\ head_tok.tag = "VBN" THEN "passive"
  ELSE IF aux_tok.lemma = "do" THEN "do-support"
  ELSE "other"

\* aux_role(aux_tok, head_tok): both arguments are token records
aux_role(aux_tok, head_tok) ==
  IF aux_tok.tag = "MD" \/ aux_tok.lemma \in MODALS THEN "modal"
  ELSE IF aux_tok.lemma = "have" THEN "perfect"
  ELSE IF aux_tok.lemma = "be" /\ head_tok.tag = "VBG" THEN "progressive"
  ELSE IF aux_tok.lemma = "be" /\ head_tok.tag = "VBN" THEN "passive"
  ELSE IF aux_tok.lemma = "do" THEN "do-support"
  ELSE "other"

\* the list `auxes` of collect_aux_chain before it is sorted: the aux/auxpass
\* children, then every token headed by the verb and tagged MD
AuxCandidates(t) ==
  SelectSeq(Children(t), LAMBDA c : Tok(c).dep \in {"aux", "auxpass"})
  \o SelectSeq(IndexSeq, LAMBDA j : Tok(j).head = t /\ Tok(j).tag = "MD")

\* seeded fault: the sorted(set(...)) line of collect_aux_chain left out
collect_aux_chain_unsorted(t) == Texts(AuxCandidates(t))

collect_aux_chain(t) == Texts(SortedSet(SeqRange(AuxCandidates(t))))

ParticleIndices(t) ==
  SelectSeq(Children(t),
            LAMBDA c : /\ Tok(c).dep \in {"prt", "prep", "advmod"}
                       /\ Tok(c).pos \in PARTICLE_POS
                       /\ c > t)

find_phrasal_particles(t) == Texts(ParticleIndices(t))

has_object(t) ==
  \/ \E c \in SeqRange(Children(t)) :
       Tok(c).dep \in {"dobj", "obj", "attr", "ccomp", "xcomp", "oprd"}
  \/ \E c \in SeqRange(Children(t)) : Tok(c).dep \in {"nsubjpass"}

(***************************************************************************)
(* Nominal, modifier and closed-class classifiers.                         *)
(***************************************************************************)
collective_examples == {"team", "committee", "group", "audience", "family",
                        "staff", "class", "crew", "troop", "jury"}

noun_info(t) ==
  LET tok == Tok(t)
      is_proper == tok.tag \in {"NNP", "NNPS"}
      is_plural == tok.tag \in {"NNS", "NNPS"}
      possessive ==
        \/ \E c \in SeqRange(Children(t)) : Tok(c).dep = "case" /\ Tok(c).text = "'s"
        \/ tok.dep = "poss"
      concreteness ==
        IF tok.ent_type # "" \/ StartsWithNN(tok.tag) THEN "concrete" ELSE "abstract"
      countability ==
        IF is_plural \/ tok.tag \in {"NN", "NNS", "NNP", "NNPS"} THEN "count" ELSE "noncount"
      collective == Lower(tok.lemma) \in collective_examples
      why == (IF is_proper THEN <<"Proper: capitalized name or title form.">>
                           ELSE <<"Common: general category word.">>)
             \o (IF possessive THEN <<"Possessive form detected.">> ELSE <<>>)
             \o (IF collective THEN <<"Collective noun (group as a unit).">> ELSE <<>>)
  IN [i |-> t, text |-> tok.text, lemma |-> tok.lemma,
      type |-> IF is_proper THEN "proper" ELSE "common",
      concreteness |-> concreteness, countability |-> countability,
      collective |-> collective, possessive |-> possessive,
      why |-> IF why # <<>> THEN why ELSE <<"General noun usage in context.">>]

personal_subj == {"i", "we", "you", "he", "she", "they", "it"}
personal_obj == {"me", "us", "you", "him", "her", "them", "it"}
possessive_abs == {"mine", "yours", "his", "hers", "ours", "theirs"}
possessive_dep == {"my", "your", "his", "her", "our", "their", "its"}
demonstratives == {"this", "that", "these", "those"}
interrogatives == {"who", "whom", "whose", "which", "what"}
relatives == {"who", "whom", "whose", "which", "that"}
reflexive == {"myself", "yourself", "himself", "herself", "itself",
              "ourselves", "yourselves", "themselves"}

\* the if/elif chain of pronoun_info: <<ptype, case, poss_form, refl, why>>
\* seeded fault: the relative test of pronoun_info moved ahead of the
\* demonstrative and interrogative tests
PronounChainRelativeFirst(t) ==
  LET tok == Tok(t)
      txt == Lower(tok.text)
  IN IF txt \in personal_subj
       THEN <<"personal", "subjective", "None", FALSE, <<"Personal pronoun (subjective case).">> >>
     ELSE IF txt \in personal_obj
       THEN <<"personal", "objective", "None", FALSE, <<"Personal pronoun (objective case).">> >>
     ELSE IF txt \in possessive_abs
       THEN <<"possessive", "(n/a)", "absolute", FALSE, <<"Possessive pronoun (absolute).">> >>
     ELSE IF txt \in possessive_dep
       THEN <<"possessive", "(n/a)", "dependent", FALSE, <<"Possessive determiner (dependent).">> >>
     ELSE IF txt \in relatives /\ tok.dep \in {"relcl", "nsubj", "dobj", "pobj", "attr"}
       THEN <<"relative", "(n/a)", "None", FALSE, <<"Relative pronoun within a clause.">> >>
     ELSE IF txt \in demonstratives
       THEN <<"demonstrative", "(n/a)", "None", FALSE, <<"Demonstrative pronoun.">> >>
     ELSE IF txt \in interrogatives /\ tok.dep \in {"attr", "pobj", "dobj", "nsubj"}
       THEN <<"interrogative", "(n/a)", "None", FALSE, <<"Interrogative pronoun.">> >>
     ELSE IF txt \in reflexive
       THEN <<"reflexive", "(n/a)", "None", TRUE, <<"Reflexive/Intensive pronoun.">> >>
     ELSE <<(IF tok.tag = "PRP$" \/ tok.tag = "PRP" THEN "indefinite" ELSE "other"),
            "(n/a)", "None", FALSE, <<>> >>

PronounChain(t) ==
  LET tok == Tok(t)
      txt == Lower(tok.text)
  IN IF txt \in personal_subj
       THEN <<"personal", "subjective", "None", FALSE, <<"Personal pronoun (subjective case).">> >>
     ELSE IF txt \in personal_obj
       THEN <<"personal", "objective", "None", FALSE, <<"Personal pronoun (objective case).">> >>
     ELSE IF txt \in possessive_abs
       THEN <<"possessive", "(n/a)", "absolute", FALSE, <<"Possessive pronoun (absolute).">> >>
     ELSE IF txt \in possessive_dep
       THEN <<"possessive", "(n/a)", "dependent", FALSE, <<"Possessive determiner (dependent).">> >>
     ELSE IF txt \in demonstratives
       THEN <<"demonstrative", "(n/a)", "None", FALSE, <<"Demonstrative pronoun.">> >>
     ELSE IF txt \in interrogatives /\ tok.dep \in {"attr", "pobj", "dobj", "nsubj"}
       THEN <<"interrogative", "(n/a)", "None", FALSE, <<"Interrogative pronoun.">> >>
     ELSE IF txt \in relatives /\ tok.dep \in {"relcl", "nsubj", "dobj", "pobj", "attr"}
       THEN <<"relative", "(n/a)", "None", FALSE, <<"Relative pronoun within a clause.">> >>
     ELSE IF txt \in reflexive
       THEN <<"reflexive", "(n/a)", "None", TRUE, <<"Reflexive/Intensive pronoun.">> >>
     ELSE <<(IF tok.tag = "PRP$" \/ tok.tag = "PRP" THEN "indefinite" ELSE "other"),
            "(n/a)", "None", FALSE, <<>> >>

pronoun_info(t) ==
  LET tok == Tok(t)
      r == PronounChain(t)
  IN [i |-> t, text |-> tok.text, lemma |-> tok.lemma, type |-> r[1],
      case |-> r[2], possessive_form |-> r[3], reflexive_or_intensive |-> r[4],
      why |-> IF r[5] # <<>> THEN r[5]
              ELSE <<"Pronoun identified by POS tag and context.">>]

adjective_info(t) ==
  LET tok == Tok(t)
      deg == IF tok.tag = "JJS" THEN "superlative"
             ELSE IF tok.tag = "JJR" THEN "comparative" ELSE "positive"
      typ == IF IsCapitalized(tok.text) /\ tok.dep \in {"amod", "acomp"}
             THEN "proper" ELSE "common"
  IN [i |-> t, text |-> tok.text, lemma |-> tok.lemma, type |-> typ, degree |-> deg,
      why |-> << <<"Adjective (", tok.tag, "); degree: ", deg, ".">> >>]

\* the lemma set of adverb_info's conj_adv flag
AdverbConjunctiveLemmas ==
  {"however", "therefore", "moreover", "consequently", "nevertheless",
   "furthermore", "thus", "hence", "meanwhile"}

adverb_info(t) ==
  LET tok == Tok(t)
      deg == IF tok.tag = "RBS" THEN "superlative"
             ELSE IF tok.tag = "RBR" THEN "comparative" ELSE "positive"
      conj_adv == Lower(tok.lemma) \in AdverbConjunctiveLemmas
      modifies ==
        IF tok.dep = "advmod" /\ HeadOf(t).pos = "ADJ" THEN "adjective"
        ELSE IF tok.dep = "advmod" /\ HeadOf(t).pos = "ADV" THEN "adverb"
        ELSE IF tok.dep = "advmod" /\ HeadOf(t).pos \in {"VERB", "AUX"} THEN "verb"
        ELSE IF tok.dep = "advcl" THEN "sentence"
        ELSE "verb"
  IN [i |-> t, text |-> tok.text, lemma |-> tok.lemma,
      modifies |-> modifies, degree |-> deg, conjunctive |-> conj_adv,
      why |-> << <<"Adverb (", tok.tag, "); degree: ", deg, ".">> >>
              \o (IF conj_adv THEN <<"Conjunctive adverb (links clauses).">> ELSE <<>>)]

preposition_info(t) ==
  [i |-> t, text |-> Tok(t).text, lemma |-> Tok(t).lemma, type |-> "preposition",
   why |-> <<"Preposition heads a PP or marks relation.">>]

\* the three lemma sets of conjunction_info
ConjCoordinating == {"for", "and", "nor", "but", "or", "yet", "so"}
ConjSubordinating == {"because", "although", "if", "when", "since", "while",
                      "after", "before", "though", "unless", "until"}
ConjConjunctiveAdverbs == {"however", "therefore", "moreover", "consequently",
                           "furthermore", "nevertheless"}

conjunction_info(t) ==
  LET tok == Tok(t)
      lemma == Lower(tok.lemma)
      r == IF lemma \in ConjCoordinating
             THEN <<"coordinating", <<"Coordinating conjunction (FANBOYS).">> >>
           ELSE IF lemma \in ConjSubordinating
             THEN <<"subordinating",
                    <<"Subordinating conjunction (introduces dependent clause).">> >>
           ELSE IF lemma \in ConjConjunctiveAdverbs
             THEN <<"conjunctive_adverb", <<"Conjunctive adverb connecting clauses.">> >>
           ELSE <<"other", <<"Conjunction.">> >>
  IN [i |-> t, text |-> tok.text, lemma |-> tok.lemma, type |-> r[1], why |-> r[2]]

interjection_info(t) ==
  [i |-> t, text |-> Tok(t).text, lemma |-> Tok(t).lemma, is_interjection |-> TRUE,
   why |-> <<"Interjection expresses emotion/reaction.">>]
(***************************************************************************)
(* analyze: the dispatch loop.  One branch operator per `if ... continue`  *)
(* block of the loop body; each appends one record to its bucket and one   *)
(* label to pos_labels.                                                    *)
(***************************************************************************)
PosLabel(t, gold, why) == [i |-> t, gold |-> gold, why |-> why]

\* a spaCy token is truthy (its text is not empty), so `t.head if t.head else t`
\* is t.head and head_text is t.head.text
AuxRecord(t) ==
  LET tok == Tok(t)
      role == aux_role(tok, HeadOf(t))
  IN [i |-> t, text |-> tok.text, lemma |-> tok.lemma, pos |-> tok.pos,
      tag |-> tok.tag, role |-> role, head_text |-> HeadOf(t).text,
      why |-> << <<"Auxiliary (", role, ").">> >>]

AuxBranch(t) ==
  /\ auxiliaries' = Append(auxiliaries, AuxRecord(t))
  /\ pos_labels' = Append(pos_labels,
       PosLabel(t, "auxiliary",
                << <<"Auxiliary '", Tok(t).text, "' (", AuxRecord(t).role, ").">> >>))
  /\ UNCHANGED <<verbs, nouns, pronouns, adjectives, adverbs, prepositions,
                 conjunctions, interjections>>

VerbRecord(t) ==
  LET tok == Tok(t)
      particles == find_phrasal_particles(t)
      phrasal == IF particles # <<>> THEN <<tok.text>> \o particles ELSE <<tok.text>>
      trans == IF has_object(t) THEN "transitive" ELSE "intransitive"
      is_link == /\ tok.lemma \in LINKING_LEMMAS
                 /\ tok.dep \in {"ROOT", "xcomp", "ccomp", "acomp", "attr", "relcl", "conj"}
      soa == IF is_link THEN "state"
             ELSE IF tok.lemma \in {"happen", "occur", "arise"} THEN "occurrence"
             ELSE "action"
  IN [i |-> t, text |-> tok.text, lemma |-> tok.lemma, pos |-> tok.pos, tag |-> tok.tag,
      aux_chain |-> collect_aux_chain(t),
      particles |-> particles, phrasal |-> phrasal,
      transitivity |-> trans, is_linking |-> is_link, is_modal |-> FALSE,
      soa |-> soa,
      why |-> << <<"Verb detected (", tok.tag, ").">>,
                 <<"Phrasal particles: ",
                   (IF particles # <<>> THEN particles ELSE <<"none">>), ".">>,
                 <<"Transitivity: ", trans, ".">>,
                 (IF is_link THEN "Linking verb (state)"
                             ELSE "Action/occurrence based on context.") >>]

VerbBranch(t) ==
  /\ verbs' = Append(verbs, VerbRecord(t))
  /\ pos_labels' = Append(pos_labels,
       PosLabel(t, "verb", << <<"Main verb '", Tok(t).text, "'.">> >>))
  /\ UNCHANGED <<auxiliaries, nouns, pronouns, adjectives, adverbs, prepositions,
                 conjunctions, interjections>>

\* seeded fault: the noun branch labels its token "pronoun"
NounBranchPronounLabel(t) ==
  /\ nouns' = Append(nouns, noun_info(t))
  /\ pos_labels' = Append(pos_labels, PosLabel(t, "pronoun", noun_info(t).why))
  /\ UNCHANGED <<verbs, auxiliaries, pronouns, adjectives, adverbs, prepositions,
                 conjunctions, interjections>>

NounBranch(t) ==
  /\ nouns' = Append(nouns, noun_info(t))
  /\ pos_labels' = Append(pos_labels, PosLabel(t, "noun", noun_info(t).why))
  /\ UNCHANGED <<verbs, auxiliaries, pronouns, adjectives, adverbs, prepositions,
                 conjunctions, interjections>>

PronounBranch(t) ==
  /\ pronouns' = Append(pronouns, pronoun_info(t))
  /\ pos_labels' = Append(pos_labels, PosLabel(t, "pronoun", pronoun_info(t).why))
  /\ UNCHANGED <<verbs, auxiliaries, nouns, adjectives, adverbs, prepositions,
                 conjunctions, interjections>>

AdjectiveBranch(t) ==
  /\ adjectives' = Append(adjectives, adjective_info(t))
  /\ pos_labels' = Append(pos_labels, PosLabel(t, "adjective", adjective_info(t).why))
  /\ UNCHANGED <<verbs, auxiliaries, nouns, pronouns, adverbs, prepositions,
                 conjunctions, interjections>>

AdverbBranch(t) ==
  /\ adverbs' = Append(adverbs, adverb_info(t))
  /\ pos_labels' = Append(pos_labels, PosLabel(t, "adverb", adverb_info(t).why))
  /\ UNCHANGED <<verbs, auxiliaries, nouns, pronouns, adjectives, prepositions,
                 conjunctions, interjections>>

PrepositionBranch(t) ==
  /\ prepositions' = Append(prepositions, preposition_info(t))
  /\ pos_labels' = Append(pos_labels, PosLabel(t, "preposition", preposition_info(t).why))
  /\ UNCHANGED <<verbs, auxiliaries, nouns, pronouns, adjectives, adverbs,
                 conjunctions, interjections>>

ConjunctionBranch(t) ==
  /\ conjunctions' = Append(conjunctions, conjunction_info(t))
  /\ pos_labels' = Append(pos_labels, PosLabel(t, "conjunction", conjunction_info(t).why))
  /\ UNCHANGED <<verbs, auxiliaries, nouns, pronouns, adjectives, adverbs,
                 prepositions, interjections>>

\* seeded fault: the interjection branch without its `continue`, so that the
\* residual label is appended as well
InterjectionBranchFallsThrough(t) ==
  /\ interjections' = Append(interjections, interjection_info(t))
  /\ pos_labels' = pos_labels
       \o << PosLabel(t, "interjection", interjection_info(t).why),
             PosLabel(t, "other", <<"Not a core POS in this game.">>) >>
  /\ UNCHANGED <<verbs, auxiliaries, nouns, pronouns, adjectives, adverbs,
                 prepositions, conjunctions>>

InterjectionBranch(t) ==
  /\ interjections' = Append(interjections, interjection_info(t))
  /\ pos_labels' = Append(pos_labels, PosLabel(t, "interjection", interjection_info(t).why))
  /\ UNCHANGED <<verbs, auxiliaries, nouns, pronouns, adjectives, adverbs,
                 prepositions, conjunctions>>

OtherBranch(t) ==
  /\ pos_labels' = Append(pos_labels,
       PosLabel(t, "other", <<"Not a core POS in this game.">>))
  /\ UNCHANGED buckets

\* the body of `for t in doc:` for token t: the first test that holds runs its
\* branch and continues with the next token
DispatchBody(t) ==
  IF is_aux(t) THEN AuxBranch(t)
  ELSE IF Tok(t).pos = "VERB" THEN VerbBranch(t)
  ELSE IF Tok(t).pos = "NOUN" \/ Tok(t).tag \in {"NN", "NNS", "NNP", "NNPS"}
    THEN NounBranch(t)
  ELSE IF Tok(t).pos = "PRON" THEN PronounBranch(t)
  ELSE IF Tok(t).pos = "ADJ" THEN AdjectiveBranch(t)
  ELSE IF Tok(t).pos = "ADV" THEN AdverbBranch(t)
  ELSE IF Tok(t).pos = "ADP" THEN PrepositionBranch(t)
  ELSE IF Tok(t).pos = "CCONJ" \/ Tok(t).pos = "SCONJ" THEN ConjunctionBranch(t)
  ELSE IF Tok(t).pos = "INTJ" THEN InterjectionBranch(t)
  ELSE OtherBranch(t)

(***************************************************************************)
(* analyze: the clause segmenter.                                          *)
(***************************************************************************)
\* seeded fault: the root found by its head (itself) instead of its relation
IsRootPredicateByHead(t) == Tok(t).head = t /\ Tok(t).pos \in {"VERB", "AUX"}

IsRootPredicate(t) == Tok(t).dep = "ROOT" /\ Tok(t).pos \in {"VERB", "AUX"}

IsDependentClause(t) == Tok(t).dep \in {"ccomp", "xcomp", "advcl", "relcl"}

IndependentClause(t) ==
  [i |-> t, text |-> Texts(Subtree(t)), type |-> "independent", finite |-> TRUE,
   has_marker |-> FALSE, why |-> <<"Root predicate => independent clause.">>]

DependentClause(t) ==
  LET tok == Tok(t)
      cl_type == IF tok.dep = "advcl" THEN "adverbial"
                 ELSE IF tok.dep = "relcl" THEN "relative" ELSE "complement"
      has_marker == \E ch \in SeqRange(Children(t)) :
                      Tok(ch).dep \in {"mark", "complm", "relcl"}
  IN [i |-> t, text |-> Texts(Subtree(t)), type |-> cl_type,
      finite |-> (tok.verbform # "Inf"), has_marker |-> has_marker,
      why |-> << <<tok.dep, " attached to ", HeadOf(t).text, ".">> >>]

\* the records the body of the clause loop appends for token t: two separate
\* `if` statements, the independent one first
ClauseRecords(t) ==
  (IF IsRootPredicate(t) THEN <<IndependentClause(t)>> ELSE <<>>)
  \o (IF IsDependentClause(t) THEN <<DependentClause(t)>> ELSE <<>>)

\* `clauses` after the loop has visited tokens 0 .. n-1
RECURSIVE ClausesUpTo(_)
ClausesUpTo(n) == IF n = 0 THEN <<>> ELSE ClausesUpTo(n - 1) \o ClauseRecords(n - 1)
(***************************************************************************)
(* sentence: the external sources and the local fallback.                  *)
(* A response is what one requests.get(...) call and the decoding of its   *)
(* body lead to; the outcome of a block is a return, a raise or falling    *)
(* through to the next statement.                                          *)
(***************************************************************************)
Return(text, source) == [kind |-> "return", text |-> text, source |-> source, exc |-> ""]
Raise(exc) == [kind |-> "raise", text |-> "", source |-> "", exc |-> exc]
Fall == [kind |-> "fall", text |-> "", source |-> "", exc |-> ""]

\* the exception classes the calls of sentence can raise; all derive from Exception
ExceptionClasses == {"ConnectionError", "Timeout", "JSONDecodeError",
                     "AttributeError", "KeyError", "TypeError"}

\* seeded fault: only the exceptions of requests are caught
CaughtRequestsOnly(exc) == exc \in {"ConnectionError", "Timeout"}

\* `except Exception: pass`
Caught(exc) == exc \in ExceptionClasses

\* requests.get(...) followed by .json(): the decoded body, or the exception
Decoded(resp) ==
  CASE resp.kind = "connection_error" -> Raise("ConnectionError")
    [] resp.kind = "timeout" -> Raise("Timeout")
    [] resp.kind = "not_json" -> Raise("JSONDecodeError")
    [] OTHER -> Fall

\* the statements inside the try of the tatoeba block
TatoebaTry(resp) ==
  IF Decoded(resp).kind = "raise" THEN Decoded(resp)
  ELSE CASE resp.kind = "json_list" -> Raise("AttributeError")
         [] resp.kind \in {"no_results", "empty_results"} -> Fall
         [] resp.kind = "results_not_list" -> Raise("TypeError")
         [] resp.kind = "result_without_text" -> Raise("KeyError")
         [] resp.kind = "ok" -> Return(resp.text, "tatoeba")

\* try: ... except Exception: pass
TryExcept(outcome) ==
  IF outcome.kind = "raise" /\ Caught(outcome.exc) THEN Fall ELSE outcome

\* the statements inside the try of the wordnik block
WordnikTry(word, examples) ==
  IF Decoded(word).kind = "raise" THEN Decoded(word)
  ELSE CASE word.kind = "json_list" -> Raise("AttributeError")
         [] word.kind = "no_word" -> Fall
         [] word.kind = "ok" ->
              IF Decoded(examples).kind = "raise" THEN Decoded(examples)
              ELSE CASE examples.kind = "json_list" -> Raise("AttributeError")
                     [] examples.kind = "no_examples" -> Fall
                     [] examples.kind = "example_not_dict" -> Raise("AttributeError")
                     [] examples.kind = "example_without_text" -> Return(word.text, "wordnik")
                     [] examples.kind = "ok" -> Return(examples.text, "wordnik")

\* a string is truthy when it is set and not empty
Truthy(key) == key \notin {"None", ""}

\* sentence(source) in environment env, with `pick` the index random.choice draws
sentence(source, env, pick) ==
  LET tatoeba == IF source = "tatoeba" THEN TryExcept(TatoebaTry(env.tatoeba)) ELSE Fall
      wordnik == IF source = "wordnik" /\ Truthy(env.key)
                 THEN TryExcept(WordnikTry(env.word, env.examples)) ELSE Fall
  IN IF tatoeba.kind # "fall" THEN tatoeba
     ELSE IF wordnik.kind # "fall" THEN wordnik
     ELSE Return(LOCAL_SENTENCES[pick], "local")

Resp(kind, text) == [kind |-> kind, text |-> text]
Unused == Resp("unused", "")

Sources == {"local", "tatoeba", "wordnik"}

TatoebaResponses ==
  {Resp(kd, "") : kd \in {"connection_error", "timeout", "not_json", "json_list",
                          "no_results", "empty_results", "results_not_list",
                          "result_without_text"}}
  \cup {Resp("ok", "Tom is reading a book."), Resp("ok", LOCAL_SENTENCES[1])}

WordResponses ==
  {Resp(kd, "") : kd \in {"connection_error", "timeout", "not_json", "json_list", "no_word"}}
  \cup {Resp("ok", "lantern")}

ExamplesResponses ==
  {Resp(kd, "") : kd \in {"connection_error", "timeout", "not_json", "json_list",
                          "no_examples", "example_not_dict", "example_without_text"}}
  \cup {Resp("ok", "The lantern swung in the wind.")}

\* the environments of one call: only the requests the call can make are drawn
Envs(source) ==
  {[tatoeba |-> t, key |-> ky, word |-> w, examples |-> e] :
     t \in (IF source = "tatoeba" THEN TatoebaResponses ELSE {Unused}),
     ky \in (IF source = "wordnik" THEN {"None", "", "k3y"} ELSE {"None"}),
     w \in (IF source = "wordnik" THEN WordResponses \cup {Unused} ELSE {Unused}),
     e \in (IF source = "wordnik" THEN ExamplesResponses \cup {Unused} ELSE {Unused})}

\* the requests a call makes are exactly those that got a response
WellFormedEnv(source, env) ==
  LET asksWord == source = "wordnik" /\ Truthy(env.key)
      asksExamples == asksWord /\ env.word.kind = "ok"
  IN /\ (env.word = Unused) <=> ~asksWord
     /\ (env.examples = Unused) <=> ~asksExamples
(***************************************************************************)
(* The parses the parser hands to analyze (nlp(text)): bounded families of *)
(* token sequences.  Every combination of coarse tag, fine tag, lemma and  *)
(* relation is a possible parser output; heads always form a forest.       *)
(***************************************************************************)
mk(text, lemma, pos, tag, dep, head) ==
  [text |-> text, lemma |-> lemma, pos |-> pos, tag |-> tag, dep |-> dep,
   head |-> head, ent_type |-> "", verbform |-> ""]

CoarseTags == {"VERB", "AUX", "NOUN", "PRON", "ADJ", "ADV", "ADP", "CCONJ",
               "SCONJ", "INTJ", "PUNCT"}
FineTags == {"MD", "NN", "NNS", "NNP", "NNPS", "VBG", "VBN", "VB"}
Lemmas == {"be", "have", "do", "can", "go"}

\* one-word sentences over every coarse tag, fine tag and lemma
SingleTokenDocs ==
  {<<mk(l, l, p, tg, "ROOT", 0)>> : p \in CoarseTags, tg \in FineTags, l \in Lemmas}

\* one-word sentences over the closed-class lemma sets
LexLemmas == ConjCoordinating \cup ConjSubordinating \cup AdverbConjunctiveLemmas
             \cup {"plus", "And", "Thus"}
LexDocs ==
  {<<mk(l, l, p, "CC", "ROOT", 0)>> : p \in {"CCONJ", "SCONJ", "ADV"}, l \in LexLemmas}

\* sentences of up to MaxLen unattached words
FreeProfiles == CoarseTags \X {<<"VB", "go">>, <<"NN", "go">>, <<"VB", "be">>}
FreeDoc(n, f) ==
  [j \in 1 .. n |-> mk(f[j][2][2], f[j][2][2], f[j][1], f[j][2][1], "ROOT", j - 1)]

\* an auxiliary candidate and its head, in both orders
AuxProfiles == {"AUX", "VERB"} \X {"MD", "VB", "VBG"}
               \X {"be", "have", "do", "can", "will", "go"}
AuxPairDocs ==
  UNION {{ <<mk(a[3], a[3], a[1], a[2], "aux", 1), mk("gone", "go", "VERB", ht, "ROOT", 1)>>,
           <<mk("gone", "go", "VERB", ht, "ROOT", 0), mk(a[3], a[3], a[1], a[2], "aux", 0)>> }
         : a \in AuxProfiles, ht \in {"VBG", "VBN", "VB", "MD"}}

\* a main verb with up to MaxKids other words around it; a profile is
\* <<pos, tag, dep, attached>>
KidProfiles ==
  ({"AUX"} \X {"MD", "VB"} \X {"aux", "auxpass", "nsubj"} \X {TRUE})
  \cup ({"NOUN"} \X {"NN"}
        \X {"dobj", "obj", "attr", "ccomp", "xcomp", "oprd", "nsubjpass"} \X {TRUE})
  \cup ({"PART", "ADJ"} \X {"RB"} \X {"prt", "prep", "advmod"} \X {TRUE})
  \cup {<<"ADP", "IN", "prep", TRUE>>, <<"ADV", "RB", "advmod", TRUE>>,
        <<"AUX", "MD", "aux", FALSE>>, <<"NOUN", "NN", "dobj", FALSE>>}

\* the surface text of the word at index j: distinct per position
Word(j) == <<"w0", "w1", "w2", "w3", "w4", "w5">>[j + 1]

VerbDoc(n, v, f) ==
  [j \in 1 .. n |->
     IF j = v THEN mk("waiting", "wait", "VERB", "VBG", "ROOT", v - 1)
     ELSE LET q == f[IF j < v THEN j ELSE j - 1]
          IN mk(Word(j - 1), "x", q[1], q[2], q[3], IF q[4] THEN v - 1 ELSE j - 1)]

\* heads over n tokens in which every token reaches a root (a self-headed token)
Forests(n) ==
  {h \in [1 .. n -> 0 .. (n - 1)] :
     \A j \in 1 .. n : \E r \in 1 .. n :
        /\ h[r] = r - 1
        /\ \E path \in [0 .. n -> 1 .. n] :
             /\ path[0] = j
             /\ path[n] = r
             /\ \A m \in 0 .. (n - 1) : path[m + 1] = h[path[m]] + 1}

\* sentences of up to MaxLen words over the relations the clause segmenter reads;
\* a profile is <<pos, dep, verbform>>
ClauseProfiles ==
  ({"VERB"} \X {"ROOT", "ccomp", "xcomp", "advcl", "relcl", "mark"} \X {"Fin"})
  \cup ({"NOUN"} \X {"ROOT", "relcl", "mark"} \X {"Fin"})
  \cup {<<"AUX", "ROOT", "Fin">>, <<"VERB", "xcomp", "Inf">>}

ClauseDoc(n, f, h) ==
  [j \in 1 .. n |->
     [mk(Word(j - 1), "x", f[j][1], "VB", f[j][2], h[j]) EXCEPT !.verbform = f[j][3]]]

\* "They might have been waiting for the bus." (LOCAL_SENTENCES, line 47): the
\* three auxiliaries hang from "waiting"; their coarse tags and the relation of
\* "been" are the parser's choice
WaitingDocs ==
  {<< mk("They", "they", "PRON", "PRP", "nsubj", 4),
      mk("might", "might", p1, "MD", "aux", 4),
      mk("have", "have", p2, "VB", "aux", 4),
      mk("been", "be", p3, "VBN", d3, 4),
      mk("waiting", "wait", "VERB", "VBG", "ROOT", 4),
      mk("for", "for", "ADP", "IN", "prep", 4),
      mk("the", "the", "DET", "DT", "det", 7),
      mk("bus", "bus", "NOUN", "NN", "pobj", 5),
      mk(".", ".", "PUNCT", ".", "punct", 4) >> :
     p1 \in {"AUX", "VERB"}, p2 \in {"AUX", "VERB"}, p3 \in {"AUX", "VERB"},
     d3 \in {"aux", "auxpass"}}

\* "She checked out of the hotel early this morning." (LOCAL_SENTENCES, line 39):
\* "out" is a particle child of "checked"; the attachment of "of", "early" and
\* "morning" is the parser's choice
CheckedOutDocs ==
  {<< mk("She", "she", "PRON", "PRP", "nsubj", 1),
      mk("checked", "check", "VERB", "VBD", "ROOT", 1),
      mk("out", "out", po, "RP", "prt", 1),
      mk("of", "of", "ADP", "IN", "prep", hof),
      mk("the", "the", "DET", "DT", "det", 5),
      mk("hotel", "hotel", "NOUN", "NN", "pobj", 3),
      mk("early", "early", "ADV", "RB", "advmod", hearly),
      mk("this", "this", "DET", "DT", "det", 8),
      mk("morning", "morning", "NOUN", "NN", dm, 1),
      mk(".", ".", "PUNCT", ".", "punct", 1) >> :
     po \in PARTICLE_POS, hof \in {1, 2}, hearly \in {1, 8},
     dm \in {"npadvmod", "dobj"}}

\* one-word sentences over pronoun forms, relations and tags
PronounTexts == {"who", "whom", "whose", "which", "what", "that", "this",
                 "Who", "That", "it", "myself", "someone"}
PronounDeps == {"relcl", "nsubj", "dobj", "pobj", "attr", "poss", "ROOT"}
PronounDocs ==
  {<<mk(w, Lower(w), "PRON", tg, dp, 0)>> :
     w \in PronounTexts, dp \in PronounDeps, tg \in {"WP", "PRP"}}

\* the one- and two-word families and the two sentences, as a set
SmallDocs == SingleTokenDocs \cup LexDocs \cup AuxPairDocs \cup WaitingDocs
             \cup CheckedOutDocs \cup PronounDocs

(***************************************************************************)
(* The server: one request at a time, from idle to done.                   *)
(***************************************************************************)
NoCall == [op |-> "none", source |-> "", env |-> "", pick |-> 0]
NoReply == [kind |-> "none", text |-> "", source |-> "", exc |-> ""]

Init ==
  /\ pc = "idle"
  /\ doc = <<>>
  /\ k = 0
  /\ verbs = <<>> /\ auxiliaries = <<>> /\ nouns = <<>> /\ pronouns = <<>>
  /\ adjectives = <<>> /\ adverbs = <<>> /\ prepositions = <<>>
  /\ conjunctions = <<>> /\ interjections = <<>>
  /\ pos_labels = <<>>
  /\ clauses = <<>>
  /\ call = NoCall
  /\ reply = NoReply

\* GET /analyze: doc = nlp(text), the bucket lists and pos_labels start empty
AnalyzeParse(d) ==
  /\ pc = "idle"
  /\ pc' = "dispatch"
  /\ doc' = d
  /\ k' = 0
  /\ verbs' = <<>> /\ auxiliaries' = <<>> /\ nouns' = <<>> /\ pronouns' = <<>>
  /\ adjectives' = <<>> /\ adverbs' = <<>> /\ prepositions' = <<>>
  /\ conjunctions' = <<>> /\ interjections' = <<>>
  /\ pos_labels' = <<>>
  /\ call' = [NoCall EXCEPT !.op = "analyze"]
  /\ UNCHANGED <<clauses, reply>>

\* one iteration of the dispatch loop, on token k
DispatchToken ==
  /\ pc = "dispatch"
  /\ k < NTok
  /\ DispatchBody(k)
  /\ k' = k + 1
  /\ UNCHANGED <<pc, doc, clauses, call, reply>>

\* the dispatch loop is over: the clause loop runs and analyze returns
SegmentClauses ==
  /\ pc = "dispatch"
  /\ k = NTok
  /\ clauses' = ClausesUpTo(NTok)
  /\ pc' = "done"
  /\ UNCHANGED <<doc, k, verbs, auxiliaries, nouns, pronouns, adjectives, adverbs,
                 prepositions, conjunctions, interjections, pos_labels, call, reply>>

\* GET /sentence?source=...
SentenceCall(source, env, pick) ==
  /\ pc = "idle"
  /\ WellFormedEnv(source, env)
  /\ call' = [op |-> "sentence", source |-> source, env |-> env, pick |-> pick]
  /\ reply' = sentence(source, env, pick)
  /\ pc' = "done"
  /\ UNCHANGED <<doc, k, verbs, auxiliaries, nouns, pronouns, adjectives, adverbs,
                 prepositions, conjunctions, interjections, pos_labels, clauses>>

Next ==
  \/ pc = "idle" /\ \E d \in SmallDocs : AnalyzeParse(d)
  \/ pc = "idle" /\ \E n \in 0 .. MaxLen : \E f \in [1 .. n -> FreeProfiles] :
       AnalyzeParse(FreeDoc(n, f))
  \/ pc = "idle" /\ \E m \in 0 .. MaxKids : \E v \in 1 .. (m + 1) :
       \E f \in [1 .. m -> KidProfiles] : AnalyzeParse(VerbDoc(m + 1, v, f))
  \/ pc = "idle" /\ \E n \in 0 .. MaxLen : \E f \in [1 .. n -> ClauseProfiles] :
       \E h \in Forests(n) : AnalyzeParse(ClauseDoc(n, f, h))
  \/ DispatchToken
  \/ SegmentClauses
  \/ pc = "idle" /\ \E source \in Sources : \E env \in Envs(source) :
       \E pick \in 1 .. Len(LOCAL_SENTENCES) : SentenceCall(source, env, pick)

Spec == Init /\ [][Next]_vars
(***************************************************************************)
(* Properties.                                                             *)
(***************************************************************************)
Analyzing == call.op = "analyze"
\* the dispatch loop has visited every token
DispatchFinished == Analyzing /\ k = NTok

BucketNames == <<"verb", "auxiliary", "noun", "pronoun", "adjective", "adverb",
                 "preposition", "conjunction", "interjection">>

\* the places <<b, j>> at which token index i occurs in the nine bucket lists
Places(i) ==
  {pl \in (1 .. Len(buckets)) \X (1 .. NTok) :
     pl[2] <= Len(buckets[pl[1]]) /\ buckets[pl[1]][pl[2]].i = i}

InBucket(b, i) == \E j \in 1 .. Len(buckets[b]) : buckets[b][j].i = i

LabelledOther(i) ==
  \E j \in 1 .. Len(pos_labels) : pos_labels[j].i = i /\ pos_labels[j].gold = "other"

\* C1: once the dispatch loop has finished, every token index 0..n-1 occurs at
\* exactly one place of the nine bucket lists and is not labelled "other", or
\* occurs at no place and is labelled "other"; the lists hold no other index.
C1_Partition ==
  DispatchFinished =>
    /\ \A i \in Indices :
         \/ Cardinality(Places(i)) = 1 /\ ~LabelledOther(i)
         \/ Cardinality(Places(i)) = 0 /\ LabelledOther(i)
    /\ \A b \in 1 .. Len(buckets) : \A j \in 1 .. Len(buckets[b]) :
         buckets[b][j].i \in Indices

C1_Witness ==
  /\ pc = "done" /\ Analyzing
  /\ NTok >= 2
  /\ \E i \in Indices : Cardinality(Places(i)) = 1
  /\ \E i \in Indices : LabelledOther(i)

StrictlyIncreasing(b) ==
  \A x \in 1 .. Len(b) : \A y \in 1 .. Len(b) : x < y => b[x].i < b[y].i

\* C2: during and after the dispatch loop pos_labels has one entry per visited
\* token, in token order (entry j is for index j-1); its gold value is the name
\* of the bucket holding that token, or "other" exactly when no bucket holds
\* it; each bucket is in strictly increasing token index.  When the loop has
\* finished, len(pos_labels) = len(tokens).
C2_Labels ==
  Analyzing =>
    /\ Len(pos_labels) = k
    /\ (pc = "done" => Len(pos_labels) = NTok)
    /\ \A j \in 1 .. Len(pos_labels) :
         /\ pos_labels[j].i = j - 1
         /\ \A b \in 1 .. Len(buckets) :
              (pos_labels[j].gold = BucketNames[b]) <=> InBucket(b, j - 1)
         /\ (pos_labels[j].gold = "other") <=>
              (\A b \in 1 .. Len(buckets) : ~InBucket(b, j - 1))
    /\ \A b \in 1 .. Len(buckets) : StrictlyIncreasing(buckets[b])

C2_Witness ==
  /\ pc = "done" /\ Analyzing
  /\ \E b \in 1 .. Len(buckets) : Len(buckets[b]) >= 2
  /\ \E j \in 1 .. Len(pos_labels) : pos_labels[j].gold = "other"
  /\ \E j \in 1 .. Len(pos_labels) : pos_labels[j].gold = "noun"

\* the tests of the claim, on the token record
AuxTest(tok) == tok.pos = "AUX" \/ tok.tag = "MD" \/ tok.lemma \in {"be", "have", "do"}
NounTagFamily == {"NN", "NNS", "NNP", "NNPS"}

\* the gold label the fixed order of tests gives a token
FirstMatch(tok) ==
  CASE AuxTest(tok) -> "auxiliary"
    [] ~AuxTest(tok) /\ tok.pos = "VERB" -> "verb"
    [] ~AuxTest(tok) /\ tok.pos # "VERB"
       /\ (tok.pos = "NOUN" \/ tok.tag \in NounTagFamily) -> "noun"
    [] ~AuxTest(tok) /\ tok.tag \notin NounTagFamily
       /\ tok.pos \in {"PRON", "ADJ", "ADV", "ADP", "CCONJ", "SCONJ", "INTJ"} ->
         (CASE tok.pos = "PRON" -> "pronoun"
            [] tok.pos = "ADJ" -> "adjective"
            [] tok.pos = "ADV" -> "adverb"
            [] tok.pos = "ADP" -> "preposition"
            [] tok.pos \in {"CCONJ", "SCONJ"} -> "conjunction"
            [] tok.pos = "INTJ" -> "interjection")
    [] OTHER -> "other"

BucketOf(name) == CHOOSE b \in 1 .. Len(buckets) : BucketNames[b] = name

\* every visited token is in the bucket of its first matching test and in no other
FirstMatchWins ==
  \A i \in 0 .. (k - 1) : \A b \in 1 .. Len(buckets) :
    InBucket(b, i) <=> (FirstMatch(Tok(i)) = BucketNames[b])

AuxBeforeVerb ==
  \A i \in 0 .. (k - 1) :
    (AuxTest(Tok(i)) /\ Tok(i).pos = "VERB") =>
      (InBucket(BucketOf("auxiliary"), i) /\ ~InBucket(BucketOf("verb"), i))

NounTagMismatch(tok) ==
  /\ tok.tag \in NounTagFamily
  /\ tok.pos \in {"PRON", "ADJ", "ADV", "ADP", "CCONJ", "SCONJ", "INTJ"}

\* C3 as stated: first match wins in the fixed order; an auxiliary-test token
\* with coarse tag VERB is in auxiliaries and not in verbs; every token with a
\* noun-family tag and coarse tag PRON, ADJ, ADV, ADP, CCONJ, SCONJ or INTJ is
\* in nouns.
C3_Original ==
  Analyzing =>
    /\ FirstMatchWins
    /\ AuxBeforeVerb
    /\ \A i \in 0 .. (k - 1) :
         NounTagMismatch(Tok(i)) => InBucket(BucketOf("noun"), i)

\* C3 amended: as stated, except that a token with a noun-family tag and coarse
\* tag PRON, ADJ, ADV, ADP, CCONJ, SCONJ or INTJ is in nouns when it does not
\* satisfy the auxiliary test, and in auxiliaries when it does.
C3_FirstMatch ==
  Analyzing =>
    /\ FirstMatchWins
    /\ AuxBeforeVerb
    /\ \A i \in 0 .. (k - 1) :
         NounTagMismatch(Tok(i)) =>
           IF AuxTest(Tok(i)) THEN InBucket(BucketOf("auxiliary"), i)
           ELSE InBucket(BucketOf("noun"), i)

C3_Witness ==
  /\ pc = "done" /\ Analyzing
  /\ \E i \in Indices : AuxTest(Tok(i)) /\ Tok(i).pos = "VERB"
  /\ \E i \in Indices : NounTagMismatch(Tok(i)) /\ ~AuxTest(Tok(i))
\* the role the claim's priority order gives, from the token's tag and lemma and
\* its head's tag
ClaimedRole(tag, lemma, head_tag) ==
  CASE tag = "MD" \/ lemma \in MODALS -> "modal"
    [] tag # "MD" /\ lemma = "have" -> "perfect"
    [] tag # "MD" /\ lemma = "be" /\ head_tag = "VBG" -> "progressive"
    [] tag # "MD" /\ lemma = "be" /\ head_tag = "VBN" -> "passive"
    [] tag # "MD" /\ lemma = "do" -> "do-support"
    [] OTHER -> "other"

LabelOf(i) == CHOOSE l \in SeqRange(pos_labels) : l.i = i

\* the role is one of the pieces of the formatted justification
NamesRole(why, role) == \E x \in 1 .. Len(why) : role \in SeqRange(why[x])

\* C4: every record of auxiliaries carries the role the priority order (modal,
\* perfect, progressive, passive, do-support, other) gives for the token's tag
\* and lemma and its head's tag, and the record's and the label's justification
\* both name that role.
C4_AuxRole ==
  Analyzing =>
    \A j \in 1 .. Len(auxiliaries) :
      LET r == auxiliaries[j]
          role == ClaimedRole(Tok(r.i).tag, Tok(r.i).lemma, Tok(Tok(r.i).head).tag)
      IN /\ r.role = role
         /\ r.role \in {"modal", "perfect", "progressive", "passive", "do-support", "other"}
         /\ NamesRole(r.why, role)
         /\ NamesRole(LabelOf(r.i).why, role)
         /\ \A other \in {"modal", "perfect", "progressive", "passive",
                          "do-support", "other"} \ {role} :
              ~NamesRole(r.why, other) /\ ~NamesRole(LabelOf(r.i).why, other)

\* a "be" whose own tag is VBG and whose head, another token, is tagged neither
\* VBG nor VBN: its role is "other"
C4_Witness ==
  /\ pc = "done" /\ Analyzing
  /\ \E j \in 1 .. Len(auxiliaries) :
       /\ auxiliaries[j].role = "other"
       /\ auxiliaries[j].lemma = "be"
       /\ auxiliaries[j].tag = "VBG"
       /\ Tok(auxiliaries[j].i).head # auxiliaries[j].i

\* the relations the claim counts as giving the verb an object
ClaimedObjectDeps == {"dobj", "obj", "ccomp", "xcomp", "oprd", "nsubjpass"}

HasChildVia(v, deps) ==
  \E c \in Indices : c # v /\ Tok(c).head = v /\ Tok(c).dep \in deps

\* C5: a main verb is "transitive" exactly when it has a child attached via
\* dobj/obj, ccomp, xcomp, oprd or nsubjpass, and "intransitive" otherwise.
C5_Transitivity ==
  Analyzing =>
    \A j \in 1 .. Len(verbs) :
      /\ verbs[j].transitivity \in {"transitive", "intransitive"}
      /\ (verbs[j].transitivity = "transitive")
           <=> HasChildVia(verbs[j].i, ClaimedObjectDeps)

\* the conjunction sub-type the claim gives a lowercase lemma; the conjunctive
\* adverbs are the set of the adverb classifier's flag
ClaimedConjType(lemma) ==
  CASE lemma \in {"for", "and", "nor", "but", "or", "yet", "so"} -> "coordinating"
    [] lemma \in {"because", "although", "if", "when", "since", "while", "after",
                  "before", "though", "unless", "until"} -> "subordinating"
    [] lemma \in {"however", "therefore", "moreover", "consequently", "nevertheless",
                  "furthermore", "thus", "hence", "meanwhile"} -> "conjunctive_adverb"
    [] OTHER -> "other"

\* C6: every record of conjunctions has the sub-type the claim's three lemma
\* sets give, and the third set is the one that sets the adverb classifier's
\* conjunctive flag.
C6_ConjunctionType ==
  Analyzing =>
    /\ \A j \in 1 .. Len(conjunctions) :
         conjunctions[j].type = ClaimedConjType(Lower(conjunctions[j].lemma))
    /\ \A j \in 1 .. Len(adverbs) :
         adverbs[j].conjunctive <=>
           (ClaimedConjType(Lower(adverbs[j].lemma)) = "conjunctive_adverb")
\* the text the requested external source delivered, if it delivered one
Obtained(source, env) ==
  CASE source = "tatoeba" /\ env.tatoeba.kind = "ok" -> {env.tatoeba.text}
    [] source = "wordnik" /\ Truthy(env.key) /\ env.word.kind = "ok"
       /\ env.examples.kind = "ok" -> {env.examples.text}
    [] source = "wordnik" /\ Truthy(env.key) /\ env.word.kind = "ok"
       /\ env.examples.kind = "example_without_text" -> {env.word.text}
    [] OTHER -> {}

\* C7: for every source preference and every outcome of the external calls the
\* sentence operation returns and does not raise; the result is either a text
\* delivered by the requested external source, tagged with that source, or an
\* element of LOCAL_SENTENCES tagged "local"; a result tagged "local" has its
\* text in LOCAL_SENTENCES.
C7_SentenceFallback ==
  call.op = "sentence" =>
    /\ reply.kind = "return"
    /\ \/ /\ reply.source = call.source
          /\ reply.source \in {"tatoeba", "wordnik"}
          /\ reply.text \in Obtained(call.source, call.env)
       \/ /\ reply.source = "local"
          /\ reply.text \in SeqRange(LOCAL_SENTENCES)
    /\ (Obtained(call.source, call.env) = {}) => reply.source = "local"

C7_Witness ==
  /\ call.op = "sentence"
  /\ call.source = "wordnik"
  /\ Truthy(call.env.key)
  /\ call.env.word.kind = "ok"
  /\ call.env.examples.kind = "not_json"
  /\ reply.source = "local"

\* the tokens the claim puts in the chain of verb v
ClaimedChainSet(v) ==
  {j \in Indices :
     \/ j # v /\ Tok(j).head = v /\ Tok(j).dep \in {"aux", "auxpass"}
     \/ Tok(j).head = v /\ Tok(j).tag = "MD"}

\* the m-th smallest element of a set of indices
Nth(S, m) == CHOOSE x \in S : Cardinality({y \in S : y < x}) = m - 1

IsWaitingSentence ==
  /\ NTok = 9
  /\ [j \in 1 .. NTok |-> doc[j].text] =
       <<"They", "might", "have", "been", "waiting", "for", "the", "bus", ".">>
  /\ \A j \in {1, 2, 3} : Tok(j).head = 4 /\ Tok(j).dep \in {"aux", "auxpass"}

\* C8: the aux_chain of every main verb v is the surface text of the tokens
\* that are aux/auxpass children of v or are headed by v and tagged MD, each
\* once, by increasing token index; in "They might have been waiting for the
\* bus." with the three auxiliaries attached to "waiting", the chain of
\* "waiting" is might, have, been.
C8_AuxChain ==
  Analyzing =>
    \A j \in 1 .. Len(verbs) :
      LET v == verbs[j].i
          S == ClaimedChainSet(v)
      IN /\ Len(verbs[j].aux_chain) = Cardinality(S)
         /\ \A m \in 1 .. Cardinality(S) : verbs[j].aux_chain[m] = Tok(Nth(S, m)).text
         /\ (IsWaitingSentence /\ v = 4) =>
              verbs[j].aux_chain = <<"might", "have", "been">>

C8_Witness ==
  /\ pc = "done" /\ Analyzing
  /\ IsWaitingSentence
  /\ \E j \in 1 .. Len(verbs) : verbs[j].i = 4 /\ Len(verbs[j].aux_chain) = 3

IsCheckedOutSentence ==
  /\ NTok = 10
  /\ [j \in 1 .. NTok |-> doc[j].text] =
       <<"She", "checked", "out", "of", "the", "hotel", "early", "this", "morning", ".">>
  /\ Tok(1).pos = "VERB" /\ Tok(1).lemma = "check"
  /\ Tok(2).head = 1 /\ Tok(2).dep = "prt"
  /\ ~HasChildVia(1, ClaimedObjectDeps)

\* C9: in "She checked out of the hotel early this morning.", when "checked" is
\* a main verb with "out" attached as its particle and no object-type child,
\* its record has particles ["out"], phrasal "checked out", transitivity
\* "intransitive" and soa "action", however the other words are attached.
C9_CheckedOut ==
  (Analyzing /\ IsCheckedOutSentence) =>
    \A j \in 1 .. Len(verbs) :
      verbs[j].i = 1 =>
        /\ verbs[j].particles = <<"out">>
        /\ verbs[j].phrasal = <<"checked", "out">>
        /\ verbs[j].transitivity = "intransitive"
        /\ verbs[j].soa = "action"

\* C10: when analyze is done, no two clause records have the same anchor index
\* (no token yields both an independent and a dependent record) and the
\* records are in strictly increasing anchor index, also for parses with
\* several tokens labelled ROOT.
C10_ClauseAnchors ==
  (pc = "done" /\ Analyzing) =>
    /\ StrictlyIncreasing(clauses)
    /\ \A i \in Indices :
         Cardinality({x \in 1 .. Len(clauses) : clauses[x].i = i}) <= 1

C10_Witness ==
  /\ pc = "done" /\ Analyzing
  /\ Cardinality({i \in Indices : Tok(i).dep = "ROOT" /\ Tok(i).head = i}) >= 2
  /\ \E x \in 1 .. Len(clauses) : \E y \in 1 .. Len(clauses) :
       /\ x # y
       /\ clauses[x].type = "independent"
       /\ clauses[y].type = "independent"
WhWords == {"who", "whom", "whose", "which"}

\* C11: a record of pronouns has type "relative" only when the token's
\* lowercase text is who, whom, whose or which and its relation is relcl; with
\* relation nsubj, dobj, pobj or attr those words have type "interrogative";
\* the word "that" has type "demonstrative" under every relation.
C11_RelativeOnlyRelcl ==
  Analyzing =>
    \A j \in 1 .. Len(pronouns) :
      LET r == pronouns[j]
          txt == Lower(Tok(r.i).text)
          dep == Tok(r.i).dep
      IN /\ (r.type = "relative") => (txt \in WhWords /\ dep = "relcl")
         /\ (txt \in WhWords /\ dep \in {"nsubj", "dobj", "pobj", "attr"})
              => r.type = "interrogative"
         /\ (txt = "that") => r.type = "demonstrative"

\* a capitalised "Who" attached as relcl, typed "relative"
C11_Witness ==
  /\ pc = "done" /\ Analyzing
  /\ \E j \in 1 .. Len(pronouns) :
       /\ pronouns[j].text = "Who"
       /\ Tok(pronouns[j].i).dep = "relcl"
       /\ pronouns[j].type = "relative"
====
